---- MODULE Spec2Model ----
(***************************************************************************)
(* Level lifecycle, scene store and door/key gate of shplat                *)
(* (src/src/level.rs, src/src/inspector.rs), as a state machine over the   *)
(* entity world, the Level resource, the scene files, the detached write   *)
(* tasks and the command queue.                                            *)
(***************************************************************************)
EXTENDS Integers, Sequences, FiniteSets, TLC

\* ---------------------------------------------------------------- bounds
\* The weapon entities followed, and the largest amount given to /ammo.
MaxArms == 3
MaxAmmoCmd == 2
MaxEnt == 12
MaxScenes == 2
MaxInputs == 2
\* The pellets of one shot that the model follows.
MaxPellets == 1

\* ------------------------------------------------------- program constants
WIDTH == 1280
HEIGHT == 720
\* for _ in 0..12: the pellets of one shot of the shotgun
ShotgunPellets == 12

\* Level identifiers: the default of the Level resource and one more.
DefaultLevel == "shotgun_1"
Idents == {"shotgun_1", "l2"}

VARIABLES
    level,   \* Level(pub String): the active identifier
    ents,    \* the entity world: id -> components (kind "None": no such entity)
    files,   \* assets/scenes/<ident>.scn.ron: ident -> file content
    tasks,   \* detached IoTaskPool write tasks
    queue,   \* the world's command queue (applied depth first)
    phase,   \* position in the frame: "fixed", "update", "scene"
    ran,     \* the input systems that acted in this Update
    inputs,  \* inputs so far: key presses, clicks, submitted lines, contacts
    last,    \* the collision-begin notification handled in the last step
    lost,    \* history: the doors a MustKeep key of which has been removed
    mark,    \* history: the reset requests of one tick (see NextMark)
    newest,  \* history: ident -> <<bytes of the save issued last>>, <<>> if
             \* none was issued or a write of that identifier failed
    arms,    \* the weapon entities: slot -> components (see NoArm)
    grounded,\* the player has Grounded
    gravity, \* the sign of Gravity.0.y
    caster,  \* the sign of the y direction of the player's ShapeCaster
    fired    \* history: what the last attack did ("none": no attack)

\* The state of the weapons, and the state of the level and its files.
weaponry == <<arms, grounded, gravity, caster, fired>>
world == <<level, ents, files, tasks, queue, phase, ran, inputs, last, lost,
           mark, newest>>
vars == <<world, weaponry>>

\* ------------------------------------------------------------- entities
\* Entity ids: those of level content, and those of the load placeholders.
EntIds == 1..MaxEnt
SceneIds == (MaxEnt + 1)..(MaxEnt + MaxScenes)
Ids == EntIds \cup SceneIds
\* Entity references that name no entity of the world (resp. of the scene).
Null == MaxEnt + MaxScenes + 1
Dangling == MaxEnt + MaxScenes + 2

\* An entity is the record of its components. kind: its marker component;
\* ser: Serialize; sel: SelectedWeapon; xf: Transform; col:
\* SerializedColliderConstructor; parent: ChildOf; target: Door(String);
\* keyOf / keys: KeyOf / Keys; locked: Locked; path, st: the load handle of a
\* DynamicSceneRoot and its state; observe: the entity observer of
\* CollisionStart that despawns the entity (with CollisionEventsEnabled).
\* old and by are history, not components: on a placeholder, the persisted
\* entities that were alive when it was spawned and still are, and the
\* request that spawned it.
NoEnt ==
    [kind |-> "None", ser |-> FALSE, sel |-> FALSE, name |-> "",
     xf |-> <<0, 0>>, col |-> <<0, 0>>, parent |-> Null, target |-> "",
     keyOf |-> Null, keys |-> {}, locked |-> FALSE, path |-> "", st |-> "",
     observe |-> FALSE, old |-> {}, by |-> <<"", "", FALSE>>]

Live(w) == {i \in Ids : w[i].kind # "None"}
OfKind(w, k) == {i \in Live(w) : w[i].kind = k}
Children(w, e) == {c \in Live(w) : w[c].parent = e}

\* Query<Entity, With<Player>>
Players(w) == OfKind(w, "Player")
\* Query<.., With<Serialize>>
Persisted(w) == {i \in Live(w) : w[i].ser}
FreeIds(w) == EntIds \ Live(w)
FreeSceneIds(w) == SceneIds \ Live(w)

\* rectangle(width, height) -> SerializedColliderConstructor
rectangle(width, height) == <<width, height>>

\* The bundles the code spawns, with their required components.
PlayerBundle ==
    [NoEnt EXCEPT !.kind = "Player", !.ser = TRUE, !.name = "Player",
                  !.xf = <<-400, 0>>]
KillBoxBundle(p) ==
    [NoEnt EXCEPT !.kind = "KillBox", !.ser = TRUE, !.xf = <<0, -200>>,
                  !.col = rectangle(WIDTH \div 10, 25), !.parent = p]
LevelGeometryBundle ==
    [NoEnt EXCEPT !.kind = "LevelGeometry", !.ser = TRUE,
                  !.name = "Level Geometry"]
WallBundle(p, nm, pos, c) ==
    [NoEnt EXCEPT !.kind = "Wall", !.ser = TRUE, !.name = nm, !.xf = pos,
                  !.col = c, !.parent = p]
DoorBundle(ident) ==
    [NoEnt EXCEPT !.kind = "Door", !.ser = TRUE, !.target = ident,
                  !.col = rectangle(20, 20)]
KeyBundle(variant, d) ==
    [NoEnt EXCEPT !.kind = variant, !.ser = TRUE, !.keyOf = d,
                  !.col = rectangle(20, 20)]
\* A weapon the player has picked up: (Shotgun, SelectedWeapon, ChildOf(player))
ShotgunBundle(p) ==
    [NoEnt EXCEPT !.kind = "Shotgun", !.ser = TRUE, !.sel = TRUE,
                  !.name = "Shotgun", !.parent = p]
\* (AssaultRifle, SelectedWeapon, ChildOf(player))
AssaultRifleBundle(p) ==
    [NoEnt EXCEPT !.kind = "AssaultRifle", !.ser = TRUE, !.sel = TRUE,
                  !.name = "Assault Rifle", !.parent = p]
\* The Bullet a weapon spawns: no Serialize, no parent. A pellet of the
\* shotgun carries a tween and no CollisionEventsEnabled, the bullet of the
\* assault rifle CollisionEventsEnabled and the observer.
BulletBundle(obs) == [NoEnt EXCEPT !.kind = "Bullet", !.observe = obs]
SceneRootBundle(ident) ==
    [NoEnt EXCEPT !.kind = "SceneRoot", !.name = ident, !.path = ident,
                  !.st = "loading"]

\* The n smallest free ids, as a sequence.
RECURSIVE Alloc(_, _)
Alloc(free, n) ==
    IF n = 0 \/ free = {} THEN <<>>
    ELSE LET m == CHOOSE x \in free : \A y \in free : x <= y
         IN <<m>> \o Alloc(free \ {m}, n - 1)

\* ------------------------------------------------------ despawn and hooks
\* Children is a linked relationship target: despawning an entity despawns
\* its descendants.
RECURSIVE Descendants(_, _)
Descendants(w, S) ==
    LET C == {c \in Live(w) : w[c].parent \in S} \ S
    IN IF C = {} THEN S ELSE Descendants(w, S \cup C)

\* A must_keep that fires for a key of either variant.
must_keep_any_key(w, D) ==
    {d \in Live(w) \ D :
        \E k \in D : w[k].kind \in {"MustDestroy", "MustKeep"}
                       /\ w[k].keyOf = d}

\* A must_keep that locks no door.
must_keep_never(w, D) == {}

\* fn must_keep(remove: On<Remove, MustKeep>, ..): the doors that get Locked
\* inserted when the entities of D are removed.
must_keep(w, D) ==
    {d \in Live(w) \ D :
        \E k \in D : w[k].kind = "MustKeep" /\ w[k].keyOf = d}

\* A despawn of a door that leaves the KeyOf of its keys in place.
Despawn_keeps_KeyOf(w, R) ==
    LET D == Descendants(w, R \cap Live(w))
        L == must_keep(w, D)
    IN [i \in Ids |->
          IF i \in D THEN NoEnt
          ELSE [w[i] EXCEPT
                 !.keys = @ \ D,
                 !.locked = @ \/ (i \in L),
                 !.old = @ \ D]]

\* A despawn that leaves Keys and KeyOf of the other entities as they are.
Despawn_keeps_relations(w, R) ==
    LET D == Descendants(w, R \cap Live(w))
        L == must_keep(w, D)
    IN [i \in Ids |->
          IF i \in D THEN NoEnt
          ELSE [w[i] EXCEPT
                 !.locked = @ \/ (i \in L),
                 !.old = @ \ D]]

\* commands.entity(e).despawn() for every e of R, with the relationship hooks
\* of Keys / KeyOf and the must_keep observer.
Despawn(w, R) ==
    LET D == Descendants(w, R \cap Live(w))
        L == must_keep(w, D)
    IN [i \in Ids |->
          IF i \in D THEN NoEnt
          ELSE [w[i] EXCEPT
                 !.keys = @ \ D,
                 !.keyOf = IF @ \in D THEN Null ELSE @,
                 !.locked = @ \/ (i \in L),
                 !.old = @ \ D]]

\* A spawn that takes Locked off the door a new key names.
Spawn_unlocks(w, i, b) ==
    [j \in Ids |->
        IF j = i THEN b
        ELSE IF j = b.keyOf
             THEN [w[j] EXCEPT !.keys = @ \cup {i}, !.locked = FALSE]
        ELSE w[j]]

\* commands.spawn(bundle) at id i; a KeyOf whose target exists is entered in
\* the target's Keys, one whose target does not exist is removed again. An
\* Entity carries a generation, so the id of a despawned door that another
\* entity has taken since does not name that entity: the program puts no
\* KeyOf on anything but a Door, and no entity ever loses its Door.
Spawn(w, i, b) ==
    LET d == b.keyOf
        ok == d # Null /\ d \in Live(w) /\ w[d].kind = "Door"
        e == [b EXCEPT !.keyOf = IF ok THEN d ELSE Null]
    IN [j \in Ids |->
          IF j = i THEN e
          ELSE IF ok /\ j = d THEN [w[j] EXCEPT !.keys = @ \cup {i}]
          ELSE w[j]]

\* ------------------------------------------------------------ scene store
\* An allow-list that misses KeyOf.
AllowList_without_KeyOf ==
    {"Serialize", "Name", "Transform", "GlobalTransform", "Visibility",
     "Player", "Children", "ChildOf", "SelectedWeapon", "Shotgun",
     "AssaultRifle", "GravityGun", "LevelGeometry", "Door", "MustDestroy",
     "MustKeep", "Keys", "Wall", "KillBox", "Sensor",
     "CollisionEventsEnabled", "RigidBody", "SerializedColliderConstructor"}

\* The components serialize_level allows into the scene.
AllowList ==
    {"Serialize", "Name", "Transform", "GlobalTransform", "Visibility",
     "Player", "Children", "ChildOf", "SelectedWeapon", "Shotgun",
     "AssaultRifle", "GravityGun", "LevelGeometry", "Door", "MustDestroy",
     "MustKeep", "Keys", "KeyOf", "Wall", "KillBox", "Sensor",
     "CollisionEventsEnabled", "RigidBody", "SerializedColliderConstructor"}

\* #[require(Serialize, ..)] of the marker components
RequiresSerialize ==
    {"Player", "Wall", "KillBox", "Door", "MustDestroy", "MustKeep",
     "Shotgun", "AssaultRifle", "GravityGun"}
\* #[require(.., SerializedColliderConstructor = rectangle(20.0, 20.0))]
RequiresCollider == {"Door", "MustDestroy", "MustKeep"}

NoFile == [k |-> "none", scene |-> <<>>]
Truncated == [k |-> "empty", scene |-> <<>>]
SceneFile(sc) == [k |-> "scene", scene |-> sc]

\* DynamicSceneBuilder .. extract_entities(serialize.iter()).build(): the
\* entities With<Serialize>, their allowed components, entity references
\* kept as written (here: as positions in the scene, Dangling when the
\* referenced entity is not part of the scene).
ExtractScene(w, allow) ==
    LET S == Persisted(w)
        Rank(i) == Cardinality({j \in S : j <= i})
        At(k) == CHOOSE i \in S : Rank(i) = k
        Ref(i) == IF i = Null THEN Null
                  ELSE IF i \in S THEN Rank(i) ELSE Dangling
        Proj(e) ==
            [kind |-> IF e.kind \in allow THEN e.kind ELSE "Plain",
             ser |-> e.ser /\ "Serialize" \in allow,
             sel |-> e.sel /\ "SelectedWeapon" \in allow,
             name |-> IF "Name" \in allow THEN e.name ELSE "",
             xf |-> IF "Transform" \in allow THEN e.xf ELSE <<0, 0>>,
             col |-> IF "SerializedColliderConstructor" \in allow
                     THEN e.col ELSE <<0, 0>>,
             parent |-> IF "ChildOf" \in allow THEN Ref(e.parent) ELSE Null,
             target |-> IF "Door" \in allow THEN e.target ELSE "",
             keyOf |-> IF "KeyOf" \in allow THEN Ref(e.keyOf) ELSE Null,
             keys |-> IF "Keys" \in allow
                      THEN {Rank(x) : x \in e.keys \cap S} ELSE {},
             locked |-> e.locked /\ "Locked" \in allow,
             path |-> "", st |-> "", observe |-> FALSE, old |-> {},
             by |-> <<"", "", FALSE>>]
    IN [k \in 1..Cardinality(S) |-> Proj(w[At(k)])]

Extract(w) == ExtractScene(w, AllowList)

\* The scene spawner instantiating scene sc below placeholder p: fresh
\* entities, references mapped, entities without a parent in the scene made
\* children of p, required components inserted.
Instantiate(w, sc, p) ==
    LET ids == Alloc(FreeIds(w), Len(sc))
        New == {ids[k] : k \in 1..Len(sc)}
        Pos(i) == CHOOSE k \in 1..Len(sc) : ids[k] = i
        Map(r) == IF r \in 1..Len(sc) THEN ids[r] ELSE Null
        Ent(k) ==
            [sc[k] EXCEPT
               !.ser = @ \/ sc[k].kind \in RequiresSerialize,
               !.col = IF @ = <<0, 0>> /\ sc[k].kind \in RequiresCollider
                       THEN rectangle(20, 20) ELSE @,
               !.parent = IF @ \in 1..Len(sc) THEN ids[@] ELSE p,
               !.keyOf = Map(@),
               !.keys = {Map(x) : x \in @}]
    IN [i \in Ids |-> IF i \in New THEN Ent(Pos(i)) ELSE w[i]]

\* ------------------------------------------------------------- commands
\* op, x, from and snap are history, not part of the command: the request
\* the command stems from ("user_reset_level", "killbox", "door", "/ld", ..),
\* the identifier that request was given, and for a submitted line the
\* identifier that was active when the line was read and the scene of the
\* persisted entities the line finds, those left by the lines before it.
Cmd(c, sys, id, b) ==
    [cmd |-> c, sys |-> sys, id |-> id, b |-> b, op |-> "", x |-> "",
     from |-> "", snap |-> <<>>]
Tag(q, op, x) == [k \in 1..Len(q) |-> [q[k] EXCEPT !.op = op, !.x = x]]
TagLine(q, from, snap) ==
    [k \in 1..Len(q) |-> [q[k] EXCEPT !.from = from, !.snap = snap]]
\* commands.run_system_cached(sys)
Run(sys) == Cmd("run", sys, Null, NoEnt)
\* commands.entity(e).despawn()
DespawnCmd(e) == Cmd("despawn", "", e, NoEnt)
\* commands.spawn(bundle)
SpawnCmd(b) == Cmd("spawn", "", Null, b)
\* commands.entity(e).insert(FireWeapon)
InsertFireWeapon(e) == Cmd("insert", "FireWeapon", e, NoEnt)

\* ---------------------------------------------------------------- weapons
Weapons == {"Shotgun", "AssaultRifle"}
\* Query<.., With<SelectedWeapon>>
Selected(w) == {i \in Live(w) : w[i].sel}
Min(a, b) == IF a < b THEN a ELSE b

\* fn shotgun(_fire: On<Insert, FireWeapon>, ..): a Bullet for every pellet
shotgun(w) ==
    IF /\ Cardinality(Players(w)) = 1
       /\ Cardinality({i \in Selected(w) : w[i].kind = "Shotgun"}) = 1
    THEN [k \in 1..Min(ShotgunPellets, MaxPellets) |->
             SpawnCmd(BulletBundle(FALSE))]
    ELSE <<>>

\* fn assault_rifle(_fire: On<Insert, FireWeapon>, ..): one Bullet with
\* CollisionEventsEnabled and the observer
assault_rifle(w) ==
    IF /\ Cardinality(Players(w)) = 1
       /\ Cardinality({i \in Selected(w) : w[i].kind = "AssaultRifle"}) = 1
    THEN <<SpawnCmd(BulletBundle(TRUE))>>
    ELSE <<>>

\* The observers of On<Insert, FireWeapon>, in the order they are added.
FireObservers(w) == shotgun(w) \o assault_rifle(w)

SceneRoots(w) == OfKind(w, "SceneRoot")
NoLast == <<Null, Null>>

\* A reset that starts no load.
reset_level_without_load == <<Run("despawn_level")>>

\* pub fn reset_level(mut commands: Commands)
reset_level == <<Run("despawn_level"), Run("deserialize_level")>>

\* A despawn_level without the With<Serialize> filter.
DespawnTargets_untagged_too(w) == {i \in Live(w) : w[i].parent = Null}

\* pub fn despawn_level: Query<Entity, (With<Serialize>, Without<ChildOf>)>
DespawnTargets(w) == {i \in Persisted(w) : w[i].parent = Null}
despawn_level(w) == Despawn(w, DespawnTargets(w))

\* pub fn deserialize_level: the placeholder with the load handle of
\* scenes/<level>.scn.ron
deserialize_level(w, lv) ==
    Spawn(w, Alloc(FreeSceneIds(w), 1)[1],
          [SceneRootBundle(lv) EXCEPT !.old = Persisted(w)])

\* A new_level that does not hand the kill-box to the geometry root.
new_level_loose_killbox(w) ==
    LET f == Alloc(FreeIds(w), 7)
        w1 == Spawn(w, f[1], PlayerBundle)
        w2 == Spawn(w1, f[2], KillBoxBundle(Null))
        w3 == Spawn(w2, f[3], LevelGeometryBundle)
        w5 == Spawn(w3, f[4], WallBundle(f[3], "Bottom Wall",
                    <<0, -(HEIGHT \div 2)>>, rectangle(WIDTH, 25)))
        w6 == Spawn(w5, f[5], WallBundle(f[3], "Left Wall",
                    <<-(WIDTH \div 2), 0>>, rectangle(25, HEIGHT)))
        w7 == Spawn(w6, f[6], WallBundle(f[3], "Right Wall",
                    <<WIDTH \div 2, 0>>, rectangle(25, HEIGHT)))
    IN Spawn(w7, f[7], WallBundle(f[3], "Top Wall",
                    <<0, HEIGHT \div 2>>, rectangle(WIDTH, 25)))

\* pub fn new_level
new_level(w) ==
    LET f == Alloc(FreeIds(w), 7)
        w1 == Spawn(w, f[1], PlayerBundle)
        w2 == Spawn(w1, f[2], KillBoxBundle(Null))
        w3 == Spawn(w2, f[3], LevelGeometryBundle)
        w4 == [w3 EXCEPT ![f[2]].parent = f[3]]
        w5 == Spawn(w4, f[4], WallBundle(f[3], "Bottom Wall",
                    <<0, -(HEIGHT \div 2)>>, rectangle(WIDTH, 25)))
        w6 == Spawn(w5, f[5], WallBundle(f[3], "Left Wall",
                    <<-(WIDTH \div 2), 0>>, rectangle(25, HEIGHT)))
        w7 == Spawn(w6, f[6], WallBundle(f[3], "Right Wall",
                    <<WIDTH \div 2, 0>>, rectangle(25, HEIGHT)))
    IN Spawn(w7, f[7], WallBundle(f[3], "Top Wall",
                    <<0, HEIGHT \div 2>>, rectangle(WIDTH, 25)))

\* pub fn serialize_level: the scene is built at once, the write is a
\* detached task that owns the bytes and the identifier.
\* A serialize_level that writes to the file of the default level.
serialize_level_to_default(w, lv) ==
    [path |-> DefaultLevel, bytes |-> Extract(w), st |-> "spawned",
     op |-> "", x |-> "", snap |-> <<>>]

\* op, x and snap are history: those of the command that started the task.
serialize_level(w, lv) ==
    [path |-> lv, bytes |-> Extract(w), st |-> "spawned", op |-> "", x |-> "",
     snap |-> <<>>]

\* What applying command c does to world w under identifier lv: the new
\* world, the commands it queues and the write tasks it starts.
ApplyOne(w, lv, c) ==
    CASE c.cmd = "run" /\ c.sys = "reset_level" ->
           [w |-> w, q |-> reset_level, t |-> <<>>]
      [] c.cmd = "run" /\ c.sys = "despawn_level" ->
           [w |-> despawn_level(w), q |-> <<>>, t |-> <<>>]
      [] c.cmd = "run" /\ c.sys = "deserialize_level" ->
           [w |-> deserialize_level(w, lv), q |-> <<>>, t |-> <<>>]
      [] c.cmd = "run" /\ c.sys = "new_level" ->
           [w |-> new_level(w), q |-> <<>>, t |-> <<>>]
      [] c.cmd = "run" /\ c.sys = "serialize_level" ->
           [w |-> w, q |-> <<>>, t |-> <<serialize_level(w, lv)>>]
      [] c.cmd = "despawn" ->
           [w |-> Despawn(w, {c.id}), q |-> <<>>, t |-> <<>>]
      [] c.cmd = "spawn" ->
           [w |-> Spawn(w, Alloc(FreeIds(w), 1)[1], c.b), q |-> <<>>,
            t |-> <<>>]
      [] c.cmd = "insert" ->
           [w |-> w, q |-> IF c.id \in Live(w) THEN FireObservers(w) ELSE <<>>,
            t |-> <<>>]

\* The bounds of the model leave room for command c.
Fits(w, nt, c) ==
    CASE c.cmd = "run" /\ c.sys = "deserialize_level" ->
           FreeSceneIds(w) # {}
      [] c.cmd = "run" /\ c.sys = "new_level" -> Cardinality(FreeIds(w)) >= 7
      [] c.cmd = "spawn" -> FreeIds(w) # {}
      [] OTHER -> TRUE

RECURSIVE Feasible(_, _, _)
Feasible(w, nt, q) ==
    IF q = <<>> THEN TRUE
    ELSE /\ Fits(w, nt, Head(q))
         /\ LET r == ApplyOne(w, DefaultLevel, Head(q))
            IN Feasible(r.w, nt + Len(r.t), r.q \o Tail(q))

Quiet == queue = <<>>

\* ------------------------------------------------------------- history
\* The doors of w2 that have lost a MustKeep key: those that had, and those
\* a MustKeep key of which is alive in w and no longer in w2.
LostAfter(w, w2, l) ==
    {d \in OfKind(w2, "Door") \cap OfKind(w, "Door") :
        \/ d \in l
        \/ \E k \in Live(w) \ Live(w2) :
              w[k].kind = "MustKeep" /\ w[k].keyOf = d}

Loading(w) == {p \in SceneRoots(w) : w[p].st = "loading"}

\* One copy of the stored level, no load pending, nothing left to clean up.
SettledOneCopy(w, fs, lv) ==
    /\ SceneRoots(w) = {}
    /\ fs[lv].k = "scene"
    /\ Extract(w) = fs[lv].scene

\* mark follows the reset requests: "one" after a reset requested in a
\* settled world, "two" after a second one in the same tick, "void" after
\* anything else; "one_past" and "two_past" once that tick is over.
NextMark(m, settled) ==
    IF m = "idle" /\ settled THEN "one"
    ELSE IF m = "one" THEN "two" ELSE "void"
PastMark(m) ==
    IF m = "one" THEN "one_past" ELSE IF m = "two" THEN "two_past" ELSE m

\* by, on the placeholders of w2 that are not in w: the request that started
\* the load, the identifier it was given, and whether that identifier had no
\* file at that time.
Stamp(w, w2, fs, op, x) ==
    [i \in Ids |->
        IF i \in SceneRoots(w2) \ SceneRoots(w)
        THEN [w2[i] EXCEPT !.by = <<op, x, x \in Idents /\ fs[x].k = "none">>]
        ELSE w2[i]]

\* newest, after the write tasks ts were issued: for each identifier the bytes
\* of the save issued last, in the order serialize_level ran.
RECURSIVE Issued(_, _)
Issued(n, ts) ==
    IF ts = <<>> THEN n
    ELSE Issued([n EXCEPT ![Head(ts).path] = <<Head(ts).bytes>>], Tail(ts))

\* Applying the command at the head of the queue; the commands it queues are
\* applied before the rest of the queue.
ApplyCommand ==
    /\ queue # <<>>
    /\ LET c == Head(queue)
           r == ApplyOne(ents, level, c)
       IN /\ ents' = Stamp(ents, r.w, files, c.op, c.x)
          /\ tasks' = tasks \o [k \in 1..Len(r.t) |->
                          [r.t[k] EXCEPT !.op = c.op, !.x = c.x,
                                         !.snap = c.snap]]
          /\ queue' = Tag(r.q, c.op, c.x) \o Tail(queue)
          /\ newest' = Issued(newest, r.t)
    /\ last' = NoLast
    /\ lost' = LostAfter(ents, ents', lost)
    /\ UNCHANGED <<inputs, level, files, phase, ran, mark, weaponry>>

\* ------------------------------------------------- collision observers
IsKey(e) == e.kind \in {"MustDestroy", "MustKeep"}

\* A door that lets the player pass whatever its keys and markers are.
CanPass_always(w, d) == w[d].kind = "Door"

\* door: keys.is_none_or(|keys| keys.iter().all(|e| !must_destroy.contains(e)))
\* over Query<(&Door, Option<&Keys>), Without<Locked>>
CanPass(w, d) ==
    /\ w[d].kind = "Door"
    /\ ~w[d].locked
    /\ \A k \in w[d].keys : w[k].kind # "MustDestroy"

\* A killbox that does not look at collider1.
KillboxFires_any_collider(w, c1, c2) ==
    /\ Cardinality(Players(w)) = 1
    /\ c2 \in Players(w)

\* fn killbox: Single<Entity, With<Player>>, killboxes.contains(collider1)
KillboxFires(w, c1, c2) ==
    /\ Cardinality(Players(w)) = 1
    /\ w[c1].kind = "KillBox"
    /\ c2 \in Players(w)

\* fn door
DoorFires(w, c1, c2) ==
    /\ Cardinality(Players(w)) = 1
    /\ c2 \in Players(w)
    /\ CanPass(w, c1)

\* A destroy_key that takes the key and the bullet in either order.
DestroyKeyFires_either_order(w, c1, c2) ==
    \/ IsKey(w[c1]) /\ w[c2].kind = "Bullet"
    \/ IsKey(w[c2]) /\ w[c1].kind = "Bullet"

\* fn destroy_key
DestroyKeyFires(w, c1, c2) ==
    /\ IsKey(w[c1])
    /\ w[c2].kind = "Bullet"

\* The commands the three observers queue for notification (c1, c2).
ObserverCommands(w, lv, c1, c2) ==
    (IF KillboxFires(w, c1, c2)
     THEN Tag(<<Run("reset_level")>>, "killbox", lv) ELSE <<>>)
    \o (IF DoorFires(w, c1, c2)
        THEN Tag(<<Run("despawn_level"), Run("reset_level")>>, "door",
                 w[c1].target)
        ELSE <<>>)
    \o (IF DestroyKeyFires(w, c1, c2)
        THEN Tag(<<DespawnCmd(c1)>>, "destroy_key", "") ELSE <<>>)

\* Colliders with CollisionEventsEnabled, and the dynamic bodies they meet.
Sensors(w) == {i \in Live(w) : w[i].kind \in {"KillBox", "Door"} \/ IsKey(w[i])}
Bodies(w) == {i \in Live(w) : w[i].kind \in {"Player", "Bullet"}}

\* The bullets that carry the observer of assault_rifle, and the static
\* colliders a Bullet meets beside the sensors.
Observing(w) == {i \in OfKind(w, "Bullet") : w[i].observe}
Walls(w) == OfKind(w, "Wall")

\* .observe(|target: On<CollisionStart>, mut commands: Commands| {
\*     commands.entity(target.collider1).despawn(); })
BulletObserver(w, c1) ==
    IF c1 \in Observing(w)
    THEN Tag(<<DespawnCmd(c1)>>, "bullet", "") ELSE <<>>

\* One notification: the observers of the plugin, then the observer of the
\* entity it is triggered for.
Notify(w, lv, c1, c2) ==
    ObserverCommands(w, lv, c1, c2) \o BulletObserver(w, c1)

\* The world after the commands q and those they queue have been applied.
RECURSIVE RunAll(_, _, _)
RunAll(w, lv, q) ==
    IF q = <<>> THEN w
    ELSE LET r == ApplyOne(w, lv, Head(q))
         IN RunAll(r.w, lv, r.q \o Tail(q))

\* A contact is notified to each of its colliders that has
\* CollisionEventsEnabled, with that collider as collider1. When both have
\* it, the two notifications come one after the other, in the order ord,
\* and the commands of the first are applied before the second is observed.
Both(w, c1, c2) == c1 \in Sensors(w) /\ c2 \in Observing(w)
Notifications(w, lv, c1, c2, ord) ==
    IF Both(w, c1, c2)
    THEN LET a == IF ord = 1 THEN <<c1, c2>> ELSE <<c2, c1>>
             b == IF ord = 1 THEN <<c2, c1>> ELSE <<c1, c2>>
             q1 == Notify(w, lv, a[1], a[2])
             w1 == RunAll(w, lv, q1)
         IN q1 \o Notify(w1, lv, b[1], b[2])
    ELSE Notify(w, lv, c1, c2)

\* On<CollisionStart> with collider1 = c1, collider2 = c2
CollisionStart(c1, c2, ord) ==
    /\ phase = "fixed" /\ Quiet
    /\ inputs < MaxInputs /\ inputs' = inputs + 1
    /\ \/ c1 \in Sensors(ents) /\ c2 \in Bodies(ents)
       \/ c1 \in Observing(ents) /\ c2 \in Walls(ents)
    /\ ord = 1 \/ Both(ents, c1, c2)
    /\ LET q == Notifications(ents, level, c1, c2, ord)
       IN /\ Feasible(ents, Len(tasks), q)
          /\ queue' = q
    /\ level' = IF DoorFires(ents, c1, c2) THEN ents[c1].target ELSE level
    /\ last' = <<c1, c2>>
    /\ mark' = IF KillboxFires(ents, c1, c2)
               THEN NextMark(mark, SettledOneCopy(ents, files, level))
               ELSE IF queue' = <<>> THEN mark ELSE "void"
    /\ UNCHANGED <<ents, files, tasks, phase, ran, lost, newest, weaponry>>

\* fn insert_fire(_attack: On<Fire<Attack>>, ..): the attack of a player on
\* the ground, or with ammunition left
insert_fire ==
    /\ phase = "fixed" /\ Quiet
    /\ inputs < MaxInputs /\ inputs' = inputs + 1
    /\ Cardinality(Selected(ents)) = 1
    /\ Cardinality(Players(ents)) = 1
    /\ LET e == CHOOSE i \in Selected(ents) : TRUE
           q == Tag(<<InsertFireWeapon(e)>>, "insert_fire", "")
       IN /\ Feasible(ents, Len(tasks), q)
          /\ queue' = q
    /\ last' = NoLast
    /\ mark' = "void"
    /\ UNCHANGED <<level, ents, files, tasks, phase, ran, lost, newest, weaponry>>

\* ------------------------------------------------------- Update systems
InUpdate == phase = "update"

\* fn despawn_bullets: the tween of pellet b has ended
despawn_bullets(b) ==
    /\ InUpdate /\ Quiet
    /\ b \in OfKind(ents, "Bullet") /\ ~ents[b].observe
    /\ queue' = Tag(<<DespawnCmd(b)>>, "despawn_bullets", "")
    /\ last' = NoLast
    /\ UNCHANGED <<inputs, level, ents, files, tasks, phase, ran, lost, mark, newest, weaponry>>

\* The systems that read the keyboard return early under DisableInput, which
\* the open terminal holds; the inspector's picking needs the terminal
\* closed and the inspector enabled. Each system runs once in an Update.
GameSystems == {"user_reset_level", "user_serialize_level"}
MayRun(sys) ==
    /\ sys \notin ran
    /\ IF sys \in GameSystems THEN ran \subseteq GameSystems ELSE ran = {}

\* fn user_reset_level (KeyR, no DisableInput)
user_reset_level ==
    /\ InUpdate /\ Quiet /\ MayRun("user_reset_level")
    /\ ran' = ran \cup {"user_reset_level"}
    /\ inputs < MaxInputs /\ inputs' = inputs + 1
    /\ Feasible(ents, Len(tasks), <<Run("reset_level")>>)
    /\ queue' = Tag(<<Run("reset_level")>>, "user_reset_level", level)
    /\ last' = NoLast
    /\ mark' = NextMark(mark, SettledOneCopy(ents, files, level))
    /\ UNCHANGED <<level, ents, files, tasks, phase, lost, newest, weaponry>>

\* fn user_serialize_level (KeyP, no DisableInput)
user_serialize_level ==
    /\ InUpdate /\ Quiet /\ MayRun("user_serialize_level")
    /\ ran' = ran \cup {"user_serialize_level"}
    /\ inputs < MaxInputs /\ inputs' = inputs + 1
    /\ Feasible(ents, Len(tasks), <<Run("serialize_level")>>)
    /\ queue' = Tag(<<Run("serialize_level")>>, "user_serialize_level", level)
    /\ last' = NoLast
    /\ mark' = "void"
    /\ UNCHANGED <<level, ents, files, tasks, phase, lost, newest, weaponry>>

\* Query<(Entity, &Children), With<SceneInstance>>
Instantiated(w) == {p \in SceneRoots(w) : Children(w, p) # {}}

\* A cleanup that despawns the placeholder while the scene is still below it.
remove_dynamic_scene_root_linked(w) == Despawn(w, Instantiated(w))

\* fn remove_dynamic_scene_root: runs once in every Update; a run that
\* finds no instantiated scene changes nothing.
remove_dynamic_scene_root(w) ==
    LET P == Instantiated(w)
    IN [i \in Ids |->
          IF i \in P THEN NoEnt
          ELSE IF w[i].parent \in P THEN [w[i] EXCEPT !.parent = Null]
          ELSE w[i]]

Cleanup ==
    /\ InUpdate /\ Quiet
    /\ Instantiated(ents) # {}
    /\ ents' = remove_dynamic_scene_root(ents)
    /\ last' = NoLast
    /\ lost' = LostAfter(ents, ents', lost)
    /\ UNCHANGED <<inputs, level, files, tasks, queue, phase, ran, mark, newest, weaponry>>

\* fn delete_selectable (secondary press on a Selectable, inspector enabled)
Selectable == {"Door", "MustDestroy", "MustKeep"}

delete_selectable(e) ==
    /\ InUpdate /\ Quiet /\ MayRun("delete_selectable")
    /\ ran' = ran \cup {"delete_selectable"}
    /\ inputs < MaxInputs /\ inputs' = inputs + 1
    /\ e \in Live(ents) /\ ents[e].kind \in Selectable
    /\ queue' = Tag(<<DespawnCmd(e)>>, "delete_selectable", "")
    /\ last' = NoLast
    /\ mark' = "void"
    /\ UNCHANGED <<level, ents, files, tasks, phase, lost, newest, weaponry>>

\* ------------------------------------------------------ parse_commands
\* Option<Single<(Entity, &mut Door)>>
TheDoor(w) ==
    IF Cardinality(OfKind(w, "Door")) = 1
    THEN CHOOSE d \in OfKind(w, "Door") : TRUE ELSE Null

\* The commands one submitted line queues.
EventCommands(w, c, x) ==
    CASE c = "/mk" ->
           <<Run("despawn_level"), Run("new_level"), Run("serialize_level")>>
      [] c = "/ld" -> <<Run("reset_level")>>
      [] c = "/cp" -> <<Run("serialize_level"), Run("reset_level")>>
      [] c = "/door" -> <<SpawnCmd(DoorBundle(x))>>
      [] c = "/keep" /\ TheDoor(w) # Null ->
           <<SpawnCmd(KeyBundle("MustKeep", TheDoor(w)))>>
      [] c = "/destroy" /\ TheDoor(w) # Null ->
           <<SpawnCmd(KeyBundle("MustDestroy", TheDoor(w)))>>
      [] OTHER -> <<>>

\* Submitted lines
Events ==
    ({"/mk", "/ld", "/cp", "/door", "/setdoor"} \X Idents)
        \cup ({"/keep", "/destroy"} \X {""})

\* `for event in events.read()` over the lines ev[k..]: the Level resource
\* and the door are written at once, the commands wait in the system's
\* Commands until the system ends. st = [level, ents, cmds].
Found(st) ==
    IF Feasible(st.ents, 0, st.cmds)
    THEN Extract(RunAll(st.ents, st.level, st.cmds)) ELSE <<>>

RECURSIVE ReadEvents(_, _, _)
ReadEvents(st, ev, k) ==
    IF k > Len(ev) THEN st
    ELSE LET c == ev[k][1]
             x == ev[k][2]
             d == TheDoor(st.ents)
         IN ReadEvents(
              [level |-> IF c \in {"/mk", "/ld", "/cp"} THEN x ELSE st.level,
               ents |-> IF c = "/setdoor" /\ d # Null
                        THEN [st.ents EXCEPT ![d].target = x] ELSE st.ents,
               cmds |-> st.cmds
                          \o TagLine(Tag(EventCommands(st.ents, c, x), c, x),
                                     st.level, Found(st))],
              ev, k + 1)

\* fn parse_commands, reading the lines ev submitted in this frame
parse_commands(ev) ==
    /\ InUpdate /\ Quiet /\ MayRun("parse_commands")
    /\ ran' = ran \cup {"parse_commands"}
    /\ LET r == ReadEvents([level |-> level, ents |-> ents, cmds |-> <<>>],
                           ev, 1)
       IN /\ Feasible(r.ents, Len(tasks), r.cmds)
          /\ level' = r.level
          /\ ents' = r.ents
          /\ queue' = r.cmds
    /\ inputs' = inputs + Len(ev)
    /\ last' = NoLast
    /\ lost' = LostAfter(ents, ents', lost)
    /\ mark' = "void"
    /\ UNCHANGED <<files, tasks, phase, newest, weaponry>>

\* --------------------------------------------------------- scene spawner
\* The load of placeholder p resolves: the scene of its file is instantiated
\* below it, or the load fails (no file, or a file that holds no scene).
SceneSpawn(p) ==
    /\ phase = "scene" /\ Quiet
    /\ p \in SceneRoots(ents) /\ ents[p].st = "loading"
    /\ LET f == files[ents[p].path]
       IN IF f.k = "scene"
          THEN /\ Len(f.scene) <= Cardinality(FreeIds(ents))
               /\ ents' = [Instantiate(ents, f.scene, p) EXCEPT
                             ![p].st = "spawned"]
          ELSE ents' = [ents EXCEPT ![p].st = "failed"]
    /\ last' = NoLast
    /\ lost' = LostAfter(ents, ents', lost)
    /\ UNCHANGED <<inputs, level, files, tasks, queue, phase, ran, mark, newest, weaponry>>

\* ------------------------------------------------- detached write tasks
\* The tasks run beside the frame; the scene spawner is the only reader of
\* the files, so their steps are taken between the steps of the scene
\* spawner, in every order with them and with each other.
Without(sq, i) == [k \in 1..(Len(sq) - 1) |-> IF k < i THEN sq[k] ELSE sq[k + 1]]

\* File::create(format!("assets/scenes/{}.scn.ron", level_ident))
TaskCreate(i) ==
    /\ phase = "scene" /\ Quiet
    /\ i \in 1..Len(tasks) /\ tasks[i].st = "spawned"
    /\ files' = [files EXCEPT ![tasks[i].path] = Truncated]
    /\ tasks' = [tasks EXCEPT ![i].st = "created"]
    /\ last' = NoLast
    /\ UNCHANGED <<inputs, level, ents, queue, phase, ran, lost, mark, newest, weaponry>>

\* A write that reads the identifier and the world when it writes.
TaskWrite_shared(i) ==
    /\ phase = "scene" /\ Quiet
    /\ i \in 1..Len(tasks) /\ tasks[i].st = "created"
    /\ files' = [files EXCEPT ![level] = SceneFile(Extract(ents))]
    /\ tasks' = Without(tasks, i)
    /\ last' = NoLast
    /\ UNCHANGED <<inputs, level, ents, queue, phase, ran, lost, mark, newest, weaponry>>

\* .and_then(|mut file| file.write(serialized_scene.as_bytes()))
TaskWrite(i) ==
    /\ phase = "scene" /\ Quiet
    /\ i \in 1..Len(tasks) /\ tasks[i].st = "created"
    /\ files' = [files EXCEPT ![tasks[i].path] = SceneFile(tasks[i].bytes)]
    /\ tasks' = Without(tasks, i)
    /\ last' = NoLast
    /\ UNCHANGED <<inputs, level, ents, queue, phase, ran, lost, mark, newest, weaponry>>

\* A failed write that takes the world down with it.
TaskFail_propagates(i) ==
    /\ phase = "scene" /\ Quiet
    /\ i \in 1..Len(tasks)
    /\ tasks' = Without(tasks, i)
    /\ ents' = [j \in Ids |-> NoEnt]
    /\ newest' = [newest EXCEPT ![tasks[i].path] = <<>>]
    /\ last' = NoLast
    /\ UNCHANGED <<inputs, level, files, queue, phase, ran, lost, mark, weaponry>>

\* .expect("error while writing scene to file"): the task panics
TaskFail(i) ==
    /\ phase = "scene" /\ Quiet
    /\ i \in 1..Len(tasks)
    /\ tasks' = Without(tasks, i)
    /\ newest' = [newest EXCEPT ![tasks[i].path] = <<>>]
    /\ last' = NoLast
    /\ UNCHANGED <<inputs, level, ents, files, queue, phase, ran, lost, mark, weaponry>>

\* ------------------------------------------------------------ the frame
\* FixedPostUpdate (physics) -> Update -> SpawnScene -> next frame
Advance ==
    /\ Quiet
    /\ \/ phase = "fixed" /\ phase' = "update"
       \/ phase = "update" /\ Instantiated(ents) = {} /\ phase' = "scene"
       \/ phase = "scene" /\ phase' = "fixed"
    /\ ran' = {}
    /\ last' = NoLast
    /\ mark' = IF phase = "scene" THEN PastMark(mark) ELSE mark
    /\ UNCHANGED <<inputs, level, ents, files, tasks, queue, lost, newest, weaponry>>

\* ------------------------------------------------------------ the store
WeaponBundle(wp, p) ==
    IF wp = "Shotgun" THEN ShotgunBundle(p) ELSE AssaultRifleBundle(p)

\* A level file as the editor writes it: the player with the weapon wp
\* picked up, the level geometry with a kill-box, and a door to "l2" with a
\* MustKeep key.
StoredWorld(wp) ==
    LET w0 == [i \in Ids |-> NoEnt]
        w1 == Spawn(w0, 1, PlayerBundle)
        w2 == Spawn(w1, 2, LevelGeometryBundle)
        w3 == Spawn(w2, 3, KillBoxBundle(2))
        w4 == Spawn(w3, 4, DoorBundle("l2"))
        w5 == Spawn(w4, 5, KeyBundle("MustKeep", 4))
    IN Spawn(w5, 6, WeaponBundle(wp, 1))

InitFiles(wp) ==
    [x \in Idents |->
        IF x = DefaultLevel THEN SceneFile(Extract(StoredWorld(wp)))
        ELSE NoFile]

\* ------------------------------------------------------------- weaponry
\* The weapons of the player and the weapons lying in the level, followed
\* apart from the level: the entities of `ents` carry no ammunition.
WeaponKinds == {"Shotgun", "AssaultRifle", "GravityGun", "Rocket", "Laser"}
ArmIds == 1..MaxArms

\* #[require(Weapon, MaxAmmo(n), ..)] of the weapon markers; Laser requires
\* no MaxAmmo.
DefaultMaxAmmo(k) ==
    CASE k = "Shotgun" -> 1
      [] k = "AssaultRifle" -> 3
      [] k = "GravityGun" -> 2
      [] k = "Rocket" -> 1
      [] OTHER -> 0

\* A weapon entity. sel: SelectedWeapon; pickup: WeaponPickup; has: it has
\* MaxAmmo and Ammo, with the values max and ammo.
NoArm ==
    [kind |-> "None", sel |-> FALSE, pickup |-> FALSE, has |-> FALSE,
     max |-> 0, ammo |-> 0]

\* MaxAmmo::insert: insert_if_new(Ammo(max)) when MaxAmmo is inserted
Arm(k, s, p) ==
    [kind |-> k, sel |-> s, pickup |-> p, has |-> k # "Laser",
     max |-> DefaultMaxAmmo(k), ammo |-> DefaultMaxAmmo(k)]

LiveArms(a) == {i \in ArmIds : a[i].kind # "None"}
\* Query<Entity, With<SelectedWeapon>>
SelectedArms(a) == {i \in LiveArms(a) : a[i].sel}
\* Single<(&mut Ammo, ..), With<SelectedWeapon>> matches these
WithAmmo(a) == {i \in SelectedArms(a) : a[i].has}
\* Query<.., With<WeaponPickup>>
Pickups(a) == {i \in LiveArms(a) : a[i].pickup}
\* Single<..>: the handler runs when exactly one entity matches
TheOnly(S) == CHOOSE i \in S : TRUE

\* An insert_fire without the test for an empty weapon.
Fires_always(g, n) == TRUE

\* insert_fire: if !*is_grounded && ammo.0 == 0 { return; }
Fires(g, n) == g \/ n # 0

\* insert_fire: if !*is_grounded { ammo.0 -= 1; }
AmmoAfter(g, n) == IF g THEN n ELSE n - 1

\* fn gravity_gun(_fire: On<Insert, FireWeapon>, ..), which runs when one
\* selected weapon is a GravityGun: the gravity after it
gravity_gun(a, gy) ==
    IF Cardinality({i \in SelectedArms(a) : a[i].kind = "GravityGun"}) = 1
    THEN -gy ELSE gy

\* Player::ceiling_caster() when gravity.0.y > 0.0, else
\* Player::ground_caster(); the caster stays when gravity_gun does not run
CasterAfter(a, gy, c) ==
    IF Cardinality({i \in SelectedArms(a) : a[i].kind = "GravityGun"}) = 1
    THEN (IF -gy > 0 THEN 1 ELSE -1) ELSE c

\* The weapons of a stored level: the player's selected weapon of kind k and
\* n weapons of kind pk to pick up.
StoredArms(k, pk, n) ==
    [i \in ArmIds |->
        IF i = 1 THEN Arm(k, TRUE, FALSE)
        ELSE IF i <= n + 1 THEN Arm(pk, FALSE, TRUE)
        ELSE NoArm]

\* After Startup: deserialize_level has spawned the first placeholder.
Init ==
    /\ level = DefaultLevel
    /\ ents = deserialize_level([i \in Ids |-> NoEnt], DefaultLevel)
    /\ \E wp \in Weapons : files = InitFiles(wp)
    /\ tasks = <<>>
    /\ queue = <<>>
    /\ phase = "scene"
    /\ ran = {}
    /\ inputs = 0
    /\ last = NoLast
    /\ lost = {}
    /\ mark = "idle"
    /\ newest = [x \in Idents |-> <<>>]
    /\ arms = [i \in ArmIds |-> NoArm]
    /\ grounded = FALSE
    /\ gravity = -1
    /\ caster = -1
    /\ fired = "none"

Next ==
    \/ ApplyCommand
    \/ \E c1, c2 \in Ids : \E ord \in 1..2 : CollisionStart(c1, c2, ord)
    \/ insert_fire
    \/ \E b \in Ids : despawn_bullets(b)
    \/ user_reset_level
    \/ user_serialize_level
    \/ Cleanup
    \/ \E e \in Ids : delete_selectable(e)
    \/ \E n \in 1..(MaxInputs - inputs) :
          \E ev \in [1..n -> Events] : parse_commands(ev)
    \/ \E p \in Ids : SceneSpawn(p)
    \/ \E i \in 1..MaxInputs : TaskCreate(i)
    \/ \E i \in 1..MaxInputs : TaskWrite(i)
    \/ \E i \in 1..MaxInputs : TaskFail(i)
    \/ Advance

Spec == Init /\ [][Next]_vars

\* ------------------------------------------------- the weapons' behaviour
\* The level at rest while the weapons are followed.
WeaponInit ==
    /\ level = DefaultLevel
    /\ ents = [i \in Ids |-> NoEnt]
    /\ files = [x \in Idents |-> NoFile]
    /\ tasks = <<>>
    /\ queue = <<>>
    /\ phase = "update"
    /\ ran = {}
    /\ inputs = 0
    /\ last = NoLast
    /\ lost = {}
    /\ mark = "idle"
    /\ newest = [x \in Idents |-> <<>>]
    /\ \E k, pk \in WeaponKinds : \E n \in 0..(MaxArms - 1) :
          arms = StoredArms(k, pk, n)
    /\ grounded = FALSE
    \* main.rs: insert_resource(Gravity(Vec2::NEG_Y * GRAVITY))
    /\ gravity = -1
    \* ShapeCaster = Self::ground_caster()
    /\ caster = -1
    /\ fired = "none"

\* On<Fire<Attack>>: insert_fire and, when it inserts FireWeapon, the
\* observers of that insertion.
Attack ==
    /\ IF Cardinality(WithAmmo(arms)) = 1
       THEN LET e == TheOnly(WithAmmo(arms))
            IN IF Fires(grounded, arms[e].ammo)
               THEN /\ arms' = [arms EXCEPT
                                  ![e].ammo = AmmoAfter(grounded, @)]
                    /\ gravity' = gravity_gun(arms, gravity)
                    /\ caster' = CasterAfter(arms, gravity, caster)
                    /\ fired' = "fired"
               ELSE /\ fired' = "dry"
                    /\ UNCHANGED <<arms, gravity, caster>>
       ELSE /\ fired' = "skipped"
            /\ UNCHANGED <<arms, gravity, caster>>
    /\ UNCHANGED <<grounded, world>>

\* fn grounded inserts Grounded, and fn reload(_: On<Insert, Grounded>, ..)
\* runs when one selected weapon has Ammo and MaxAmmo
land ==
    /\ ~grounded
    /\ grounded' = TRUE
    /\ arms' = IF Cardinality(WithAmmo(arms)) = 1
               THEN [arms EXCEPT ![TheOnly(WithAmmo(arms))].ammo =
                                     arms[TheOnly(WithAmmo(arms))].max]
               ELSE arms
    /\ fired' = "none"
    /\ UNCHANGED <<gravity, caster, world>>

\* fn grounded: commands.entity(entity).remove::<Grounded>()
take_off ==
    /\ grounded
    /\ grounded' = FALSE
    /\ fired' = "none"
    /\ UNCHANGED <<arms, gravity, caster, world>>

\* parse_commands, "/ammo n": selected_weapon.0.0 = amount;
\* selected_weapon.1.0 = amount
ammo_command(n) ==
    /\ Cardinality(WithAmmo(arms)) = 1
    /\ arms' = [arms EXCEPT ![TheOnly(WithAmmo(arms))].max = n,
                            ![TheOnly(WithAmmo(arms))].ammo = n]
    /\ fired' = "none"
    /\ UNCHANGED <<grounded, gravity, caster, world>>

\* fn weapon_pickup with the pickups N within the radius of the player: each
\* of them loses WeaponPickup and gains SelectedWeapon and ChildOf(player),
\* and the weapons that were selected when the system ran are despawned.
weapon_pickup(N) ==
    /\ N # {} /\ N \subseteq Pickups(arms)
    /\ arms' = [i \in ArmIds |->
                  IF i \in SelectedArms(arms) THEN NoArm
                  ELSE IF i \in N
                       THEN [arms[i] EXCEPT !.pickup = FALSE, !.sel = TRUE]
                  ELSE arms[i]]
    /\ fired' = "none"
    /\ UNCHANGED <<grounded, gravity, caster, world>>

\* fn select_weapon, Digit1..3: despawn_children() of the player and
\* with_child(weapon), a weapon without SelectedWeapon
select_weapon(k) ==
    /\ \E i \in ArmIds : arms[i].kind = "None" \/ ~arms[i].pickup
    /\ LET kept == [i \in ArmIds |->
                      IF arms[i].pickup THEN arms[i] ELSE NoArm]
           f == CHOOSE i \in ArmIds :
                   /\ kept[i].kind = "None"
                   /\ \A j \in ArmIds : kept[j].kind = "None" => i <= j
       IN arms' = [kept EXCEPT ![f] = Arm(k, FALSE, FALSE)]
    /\ fired' = "none"
    /\ UNCHANGED <<grounded, gravity, caster, world>>

\* reset_level and the transitions, as they are meant to end: the entities
\* of the level are replaced by those of a stored level. The new Player has
\* the required ShapeCaster and no Grounded; Gravity is a resource and stays.
Reload(k, pk, n) ==
    /\ arms' = StoredArms(k, pk, n)
    /\ grounded' = FALSE
    /\ caster' = -1
    /\ fired' = "none"
    /\ UNCHANGED <<gravity, world>>

WeaponNext ==
    \/ Attack
    \/ land
    \/ take_off
    \/ \E n \in 0..MaxAmmoCmd : ammo_command(n)
    \/ \E N \in SUBSET ArmIds : weapon_pickup(N)
    \/ \E k \in {"Shotgun", "AssaultRifle", "GravityGun"} : select_weapon(k)
    \/ \E k, pk \in WeaponKinds : \E n \in 0..(MaxArms - 1) : Reload(k, pk, n)

WeaponSpec == WeaponInit /\ [][WeaponNext]_vars

\* ================================================================ claims
\* The door's passage rule as the specification words it: no Locked marker
\* and no key naming the door that is tagged MustDestroy.
Passable(d) ==
    /\ ~ents[d].locked
    /\ \A k \in Live(ents) : ents[k].keyOf = d => ents[k].kind # "MustDestroy"

\* The last step's notification has invoked the transition to d's target.
Invoked(d) ==
    /\ queue # <<>>
    /\ \A k \in 1..Len(queue) :
          queue[k].op = "door" /\ queue[k].x = ents[d].target
    /\ level = ents[d].target

\* C1: for every collision-begin notification whose first participant is a
\* Door and whose second participant is a player, the transition to the
\* door's target is invoked if and only if the door carries no Locked and
\* no key associated with it is tagged MustDestroy.
C1_DoorPassage ==
    \A d \in OfKind(ents, "Door"), p \in Players(ents) :
        last = <<d, p>> => (Invoked(d) <=> Passable(d))

C3_LockedMonotonic ==
    [][\A d \in Ids :
          ents[d].kind = "Door" /\ ents[d].locked /\ ents'[d].kind = "Door"
              => ents'[d].locked]_vars

\* A Locked door that holds a key the editor has created for it.
C3_Witness ==
    \E d \in OfKind(ents, "Door") :
        ents[d].locked /\ \E k \in ents[d].keys : ents[k].kind = "MustDestroy"

\* C4: in every reachable state at most one LevelRoot (LevelGeometry)
\* entity exists.
C4_OneLevelRoot == Cardinality(OfKind(ents, "LevelGeometry")) <= 1


\* No command waits, no load is pending, nothing is left to clean up.
Settled == queue = <<>> /\ SceneRoots(ents) = {}

\* C5: two reset requests of one tick end like one reset: once all loads
\* have resolved and cleanup has run, the world holds exactly one copy of
\* the stored level.
C5_TwoResetsAsOne ==
    (mark \in {"two", "two_past"} /\ Settled)
        => Extract(ents) = files[level].scene

ResetOps == {"killbox", "user_reset_level"}
TransitionOps == {"door", "/ld"}

\* C6: a reset leaves the identifier unchanged, despawns every persisted
\* root entity and starts exactly one load, for the file of the active
\* identifier.
C6_ResetEffect ==
    [][(queue # <<>> /\ Head(queue).op \in ResetOps) =>
          LET c == Head(queue)
          IN /\ level' = level /\ level = c.x
             /\ c.sys = "reset_level" =>
                  /\ ents' = ents
                  /\ Len(queue') = Len(queue) + 1
                  /\ queue'[1].sys = "despawn_level"
                  /\ queue'[2].sys = "deserialize_level"
             /\ c.sys = "despawn_level" =>
                  /\ \A e \in Persisted(ents) :
                        ents[e].parent = Null => e \notin Live(ents')
                  /\ SceneRoots(ents') = SceneRoots(ents)
             /\ c.sys = "deserialize_level" =>
                  \E p \in SceneRoots(ents') \ SceneRoots(ents) :
                      /\ Live(ents') = Live(ents) \cup {p}
                      /\ ents'[p].path = level
                      /\ ents'[p].st = "loading"]_vars

\* A reset requested in a settled world has run to its end.
C6_Witness ==
    /\ mark = "one" /\ queue = <<>>
    /\ Loading(ents) # {}
    /\ \A e \in Persisted(ents) : ents[e].parent # Null

\* C7: transition(X) writes X to the identifier in a step that despawns no
\* entity, before any of its commands is applied, and the identifier is X
\* when the last command of the transition has been applied.
C7_TransitionIdentifier ==
    [][/\ level' # level =>
            queue = <<>> /\ Live(ents) \subseteq Live(ents')
       /\ (/\ queue # <<>>
           /\ Head(queue).op \in TransitionOps
           /\ Head(queue).sys = "deserialize_level") =>
              level' = Head(queue).x]_vars

\* C8: the entities a load instantiates never coexist with persisted
\* entities that were alive when the reset or transition started that load.
C8_NoCoexistence == \A p \in Instantiated(ents) : ents[p].old = {}

\* C9: a reset or transition despawns the placeholder of a pending load, so
\* no two loads are ever pending together.
C9_StaleLoadDespawned == Cardinality(Loading(ents)) <= 1

\* The persisted entities of w with the components the round-trip law
\* names; entity references as positions among the persisted entities.
Graph(w) ==
    LET S == Persisted(w)
        Rank(i) == Cardinality({j \in S : j <= i})
        At(k) == CHOOSE i \in S : Rank(i) = k
        Ref(i) == IF i \in S THEN Rank(i) ELSE 0
    IN [k \in 1..Cardinality(S) |->
          LET e == w[At(k)]
          IN [kind |-> e.kind, name |-> e.name, xf |-> e.xf, col |-> e.col,
              parent |-> Ref(e.parent), target |-> e.target,
              keyOf |-> Ref(e.keyOf), keys |-> {Ref(x) : x \in e.keys},
              sel |-> e.sel]]

\* The world after the persisted entities of w are saved and the file is
\* loaded into an empty world and cleaned up.
Reloaded(w) ==
    LET w0 == deserialize_level([i \in Ids |-> NoEnt], level)
        p == CHOOSE q \in SceneRoots(w0) : TRUE
    IN remove_dynamic_scene_root(Instantiate(w0, Extract(w), p))

\* C10: serialize followed by deserialize yields a graph isomorphic to the
\* original: parent/child structure, names, transforms, door targets, key
\* variant tags, the Door-Key relation, weapon selection and collider
\* parameters.
C10_RoundTrip == Graph(Reloaded(ents)) = Graph(ents)

\* A scene that a write task has stored has been instantiated: "l2" has no
\* file before the first save to it.
C10_Witness ==
    /\ files["l2"].k = "scene"
    /\ \E p \in Instantiated(ents) : ents[p].path = "l2"

\* The commands of q that stem from handler op.
Count(q, op) == Cardinality({k \in 1..Len(q) : q[k].op = op})
HandlerOps == {"killbox", "door", "destroy_key"}
Handlers(q) == {op \in HandlerOps : Count(q, op) > 0}

\* C11: a collision-begin notification invokes at most one of the three
\* handlers (reset, transition, key destruction), and that one once; a
\* notification of a kill-box and the player causes the reset and no
\* transition.
C11_OneHandler ==
    last # NoLast =>
        /\ Cardinality(Handlers(queue)) <= 1
        /\ Count(queue, "killbox") <= Len(<<Run("reset_level")>>)
        /\ Count(queue, "door") \in {0, 2}
        /\ Count(queue, "destroy_key") <= 1
        /\ (ents[last[1]].kind = "KillBox" /\ last[2] \in Players(ents)) =>
              Count(queue, "door") = 0

\* The notification of the kill-box and the only player has invoked the
\* reset.
C11_Witness ==
    /\ last # NoLast
    /\ ents[last[1]].kind = "KillBox" /\ Players(ents) = {last[2]}
    /\ Handlers(queue) = {"killbox"}

\* C12: when a collision-begin notification names a Key as first and a
\* projectile as second participant, neither the key nor the projectile
\* exists once the commands of that notification have been applied,
\* whichever weapon fired the projectile.
C12_KeyAndProjectileGone ==
    (last # NoLast /\ IsKey(ents[last[1]]) /\ ents[last[2]].kind = "Bullet")
        => LET w == RunAll(ents, level, queue)
           IN last[1] \notin Live(w) /\ last[2] \notin Live(w)

\* The step that applies the serialize_level command of a copy.
CopySnapshots == queue # <<>> /\ Head(queue).op = "/cp"
                     /\ Head(queue).sys = "serialize_level"
IdentOps == {"/mk", "/ld", "/cp"}

\* C13 as stated: the copy writes the snapshot of the current entities to
\* the file of the identifier that was active before the copy, and the
\* identifier is set to the new name only after that.
C13_SnapshotUnderOldName ==
    [][CopySnapshots =>
          /\ level = Head(queue).from
          /\ Len(tasks') = Len(tasks) + 1
          /\ tasks'[Len(tasks')].path = Head(queue).from]_vars

\* C13 as amended: the copy sets the identifier to the new name first; the
\* snapshot of the current entities is then written to the file of the
\* identifier active at that time (the new name, unless a later line of the
\* same frame has set another), and the reset follows the snapshot.
C13_SnapshotUnderNewName ==
    [][CopySnapshots =>
          LET c == Head(queue)
          IN /\ level' = level /\ ents' = ents
             /\ \/ level = c.x
                \/ \E k \in 2..Len(queue) :
                      queue[k].op \in IdentOps /\ queue[k].x = level
             /\ Len(tasks') = Len(tasks) + 1
             /\ tasks'[Len(tasks')].path = level
             /\ tasks'[Len(tasks')].bytes = Extract(ents)
             /\ queue' = Tail(queue)
             /\ queue'[1].op = "/cp" /\ queue'[1].x = c.x
             /\ queue'[1].sys = "reset_level"]_vars

\* The snapshot of a copy to another name has been taken, for the file of
\* the new name, and the reset of the copy is next.
C13_Witness ==
    /\ queue # <<>> /\ Head(queue).op = "/cp"
    /\ Head(queue).sys = "reset_level"
    /\ Head(queue).from # Head(queue).x
    /\ \E i \in 1..Len(tasks) :
          tasks[i].op = "/cp" /\ tasks[i].path = Head(queue).x

\* C14: when the write started by the editor command /cp N finishes, the
\* stored file of N holds the snapshot of the persisted entities that
\* existed when the command was issued.
C14_CopyStored ==
    [][\A i \in 1..Len(tasks) :
          (tasks[i].op = "/cp" /\ TaskWrite(i)) =>
              files'[tasks[i].x] = SceneFile(tasks[i].snap)]_vars

\* C15: the load started by the reset of a copy to an identifier that had
\* no stored file instantiates no entity, for every relative timing of the
\* background write and the load.
C15_CopyToNewEndsEmpty ==
    \A p \in SceneRoots(ents) :
        (ents[p].by[1] = "/cp" /\ ents[p].by[3]) => Children(ents, p) = {}

\* C16: a reset or transition whose target identifier has no stored file
\* ends in no error state: the identifier holds the target when the load is
\* started, the load instantiates nothing and no persisted entity of before
\* it is left (empty level); the failed load does not stand in the way of
\* a later request, which starts its own load.
C16_MissingFileEmptyLevel ==
    \A p \in SceneRoots(ents) :
        (/\ ents[p].by[1] \in ResetOps \cup TransitionOps
         /\ ents[p].by[3] /\ ents[p].st = "failed") =>
            /\ ents[p].path = ents[p].by[2]
            /\ ents[p].old = {} /\ Children(ents, p) = {}

\* C17: a write task that ends, by failing or by finishing, changes nothing
\* but itself and its file: the identifier, the entities, the command queue
\* and the position in the frame are as before, so every operation is
\* enabled as before; a failed write leaves the file untouched or
\* truncated. The command that starts a write does not wait for it.
C17_WriteFailureContained ==
    [][/\ Len(tasks') < Len(tasks) =>
            /\ level' = level /\ ents' = ents /\ queue' = queue
            /\ phase' = phase /\ ran' = ran /\ inputs' = inputs
            /\ \E i \in 1..Len(tasks) :
                  /\ tasks' = Without(tasks, i)
                  /\ \/ files' = files
                     \/ files' = [files EXCEPT ![tasks[i].path] =
                                                SceneFile(tasks[i].bytes)]
       /\ (queue # <<>> /\ Head(queue).sys = "serialize_level") =>
            /\ queue' = Tail(queue)
            /\ Len(tasks') = Len(tasks) + 1
            /\ level' = level /\ ents' = ents]_vars

\* A write has failed after File::create, and a later Update has queued a
\* command.
C17_Witness ==
    /\ InUpdate /\ queue # <<>>
    /\ \E x \in Idents :
          /\ files[x] = Truncated
          /\ \A i \in 1..Len(tasks) : tasks[i].path # x

\* The geometry root r of world w with the default content: four walls and
\* one kill-box as its children, all tagged.
DefaultGeometry(w, r) ==
    /\ w[r].kind = "LevelGeometry" /\ w[r].parent = Null /\ w[r].ser
    /\ Cardinality({c \in Children(w, r) : w[c].kind = "Wall"}) = 4
    /\ Cardinality({c \in Children(w, r) : w[c].kind = "KillBox"}) = 1
    /\ \A c \in Children(w, r) : w[c].kind \in {"Wall", "KillBox"} /\ w[c].ser

\* C18: the step that runs new_level leaves the identifier, the write tasks
\* and the files as they are, starts no load, changes no entity that
\* exists, and adds exactly one player and exactly one geometry root, with
\* four walls and one kill-box as its children, all with Serialize.
C18_Bootstrap ==
    [][(queue # <<>> /\ Head(queue).cmd = "run"
                    /\ Head(queue).sys = "new_level") =>
        LET N == Live(ents') \ Live(ents) IN
        /\ level' = level /\ tasks' = tasks /\ files' = files
        /\ queue' = Tail(queue)
        /\ \A i \in Live(ents) : ents'[i] = ents[i]
        /\ N \cap SceneIds = {}
        /\ Cardinality(N \cap Players(ents')) = 1
        /\ \A i \in N \cap Players(ents') :
              ents'[i].ser /\ ents'[i].parent = Null
        /\ Cardinality(N \cap OfKind(ents', "LevelGeometry")) = 1
        /\ \A r \in N \cap OfKind(ents', "LevelGeometry") :
              DefaultGeometry(ents', r) /\ Children(ents', r) \subseteq N]_vars

\* new_level of a "/mk" line has just run: its serialize_level is next and
\* the world holds a default geometry root and a player.
C18_Witness ==
    /\ queue # <<>> /\ Head(queue).sys = "serialize_level"
    /\ Head(queue).op = "/mk"
    /\ Players(ents) # {}
    /\ \E r \in Live(ents) : DefaultGeometry(ents, r)

\* C19: Keys and KeyOf agree in every state: k is in the Keys of d exactly
\* when k exists and its KeyOf names d; a KeyOf names an entity that
\* exists; no key is in the Keys of two entities. So a despawned key is in
\* no Keys, and no KeyOf names a despawned door.
C19_KeysConsistent ==
    /\ \A d \in Live(ents) : \A k \in Ids :
          k \in ents[d].keys <=> (k \in Live(ents) /\ ents[k].keyOf = d)
    /\ \A k \in Live(ents) :
          ents[k].keyOf # Null => ents[k].keyOf \in Live(ents)
    /\ \A d1, d2 \in Live(ents) :
          d1 # d2 => ents[d1].keys \cap ents[d2].keys = {}

\* A door has lost a MustKeep key and holds another key still.
C19_Witness ==
    \E d \in lost \cap OfKind(ents, "Door") :
        /\ ents[d].locked
        /\ ents[d].keys # {}

Blocked(w, d) ==
    /\ w[d].kind = "Door"
    /\ w[d].locked \/ \E k \in w[d].keys : w[k].kind = "MustDestroy"

\* C21: a collision-begin notification of a blocked door with the player
\* changes nothing: the identifier, the entities with their keys and
\* markers, the files and the write tasks are as before, and no command is
\* queued, so no load is started.
C21_BlockedDoorNoEffect ==
    [][(last' # NoLast /\ Blocked(ents, last'[1])
                       /\ last'[2] \in Players(ents)) =>
        /\ level' = level /\ ents' = ents
        /\ files' = files /\ tasks' = tasks
        /\ queue' = <<>>]_vars

\* The player has touched a door that holds a MustDestroy key.
C21_Witness ==
    /\ last # NoLast
    /\ ents[last[1]].kind = "Door" /\ last[2] \in Players(ents)
    /\ \E k \in ents[last[1]].keys : ents[k].kind = "MustDestroy"

\* Nothing is left to do but to run further frames: no command is queued,
\* no write is under way, no load is pending and no instantiated scene
\* waits for remove_dynamic_scene_root. Without further input no later
\* step changes the placeholders of such a state.
AtRest ==
    /\ Quiet /\ tasks = <<>>
    /\ Loading(ents) = {} /\ Instantiated(ents) = {}

\* C22: every load placeholder is eventually despawned, also one whose load
\* has failed because the file is missing or holds no scene: when the
\* program has come to rest no placeholder is left.
C22_PlaceholdersGo == AtRest => SceneRoots(ents) = {}

\* The doors of world w that carry Locked.
LockedDoors(w) == {d \in OfKind(w, "Door") : w[d].locked}

\* C23: Locked is part of the snapshot: the level saved and loaded again
\* holds a Locked door for every door that is Locked when it is saved.
C23_LockedSurvivesReload ==
    Cardinality(LockedDoors(Reloaded(ents))) >= Cardinality(LockedDoors(ents))

\* C24: when the commands queued for "/door X" lines have been applied, the
\* world holds a new Door with target X and a MustDestroy key of that door.
C24_DoorCommandMakesKey ==
    (queue # <<>> /\ \A k \in 1..Len(queue) : queue[k].op = "/door") =>
        LET w == RunAll(ents, level, queue)
        IN \E d \in OfKind(w, "Door") \ Live(ents) :
              /\ w[d].target = queue[1].x
              /\ \E k \in w[d].keys : w[k].kind = "MustDestroy"

\* The step is a run of remove_dynamic_scene_root that finds a scene.
CleanupStep ==
    /\ InUpdate /\ Quiet /\ Instantiated(ents) # {}
    /\ queue' = <<>> /\ ran' = ran /\ phase' = phase
    /\ ents' # ents

\* C25: the cleanup removes the placeholders of the instantiated scenes and
\* nothing else: every child of such a placeholder is alive afterwards,
\* without a parent and otherwise unchanged, and so are its descendants and
\* every other entity.
C25_CleanupKeepsContent ==
    [][CleanupStep =>
        LET P == Instantiated(ents) IN
        /\ Live(ents') = Live(ents) \ P
        /\ \A p \in P : \A c \in Children(ents, p) :
              /\ ents'[c] = [ents[c] EXCEPT !.parent = Null]
              /\ \A x \in Descendants(ents, {c}) \ {c} : ents'[x] = ents[x]
        /\ \A i \in Live(ents') :
              ents[i].parent \notin P => ents'[i] = ents[i]]_vars

\* The first load has been cleaned up: no placeholder is left, the player
\* of the stored level is at the root with its weapon below it, and so is
\* the level geometry with its kill-box.
C25_Witness ==
    /\ inputs = 0 /\ SceneRoots(ents) = {}
    /\ \E p \in Players(ents) :
          /\ ents[p].parent = Null
          /\ \E c \in Children(ents, p) : ents[c].sel
    /\ \E g \in OfKind(ents, "LevelGeometry") :
          /\ ents[g].parent = Null
          /\ \E c \in Children(ents, g) : ents[c].kind = "KillBox"

\* C26: the load a transition starts is for the file of the identifier the
\* transition was given, also when several transitions are requested in
\* one tick.
C26_LoadTargetsGiven ==
    \A p \in SceneRoots(ents) :
        ents[p].by[1] \in TransitionOps => ents[p].path = ents[p].by[2]

\* C27: a write task gets its path and its bytes from the identifier and
\* the world of the step that runs serialize_level; no later step changes
\* them, whatever it does to the identifier and the world; and a file
\* changes only by a task creating the file of its path or writing its
\* bytes to it.
C27_WriteOwnsItsData ==
    [][/\ Len(tasks') > Len(tasks) =>
            /\ Len(tasks') = Len(tasks) + 1
            /\ tasks'[Len(tasks')].path = level
            /\ tasks'[Len(tasks')].bytes = Extract(ents)
       /\ Len(tasks') >= Len(tasks) =>
            \A i \in 1..Len(tasks) :
                /\ tasks'[i].path = tasks[i].path
                /\ tasks'[i].bytes = tasks[i].bytes
       /\ Len(tasks') < Len(tasks) =>
            \E i \in 1..Len(tasks) : tasks' = Without(tasks, i)
       /\ files' # files =>
            \E i \in 1..Len(tasks) :
                \/ files' = [files EXCEPT ![tasks[i].path] = Truncated]
                \/ files' = [files EXCEPT ![tasks[i].path] =
                                             SceneFile(tasks[i].bytes)]]_vars

\* A write is under way whose identifier is no longer the active one and
\* whose bytes are no longer the scene of the world.
C27_Witness ==
    \E i \in 1..Len(tasks) :
        /\ tasks[i].st = "created"
        /\ tasks[i].path # level
        /\ tasks[i].bytes # Extract(ents)
        /\ tasks[i].bytes # <<>>

\* C28: a door that gains Locked in a step has lost, in that step, a
\* MustKeep key whose KeyOf named it; a door that comes into being, spawned
\* or loaded, is not Locked. So the removal of a MustDestroy key, or of a
\* key that names no door, locks nothing.
C28_LockedOnlyByMustKeep ==
    [][\A d \in Ids :
          (ents'[d].kind = "Door" /\ ents'[d].locked) =>
              /\ ents[d].kind = "Door"
              /\ \/ ents[d].locked
                 \/ \E k \in Live(ents) \ Live(ents') :
                       ents[k].kind = "MustKeep" /\ ents[k].keyOf = d]_vars

\* A door has gained Locked by losing its only key.
C28_Witness ==
    \E d \in lost \cap LockedDoors(ents) : ents[d].keys = {}

\* The pair (c1, c2) has the participants of one of the three rules, in
\* the order of the rule: (KillBox, player), (Door, player), (Key, projectile).
Matches(w, c1, c2) ==
    \/ w[c1].kind \in {"KillBox", "Door"} /\ w[c2].kind = "Player"
    \/ IsKey(w[c1]) /\ w[c2].kind = "Bullet"

\* C29 as stated: a notification for a pair that matches none of the three
\* rules, such as (player, kill-box) or (projectile, key), writes no
\* identifier and queues no command, so that no entity comes or goes.
C29_UnmatchedIgnored ==
    \A c1, c2 \in Live(ents) :
        ~Matches(ents, c1, c2) =>
            /\ ~DoorFires(ents, c1, c2)
            /\ Notify(ents, level, c1, c2) = <<>>

\* C29 as amended: a notification for a pair that matches none of the three
\* rules writes no identifier, and the only command it queues is the
\* despawn of the first participant when that is a projectile that carries
\* its own collision observer.
C29_UnmatchedOnlyBullet ==
    \A c1, c2 \in Live(ents) :
        ~Matches(ents, c1, c2) =>
            /\ ~DoorFires(ents, c1, c2)
            /\ Notify(ents, level, c1, c2) =
                  IF ents[c1].kind = "Bullet" /\ ents[c1].observe
                  THEN Tag(<<DespawnCmd(c1)>>, "bullet", "") ELSE <<>>

\* A door and a bullet of the assault rifle have met: the notification
\* (door, bullet) and the notification (bullet, door) have been delivered,
\* and the despawn of the bullet is queued.
C29_Witness ==
    /\ last # NoLast
    /\ ents[last[1]].kind = "Door"
    /\ ents[last[2]].kind = "Bullet" /\ ents[last[2]].observe
    /\ queue = Tag(<<DespawnCmd(last[2])>>, "bullet", "")

\* What parse_commands makes of the single line (c, x) in the present
\* world: the world it leaves and the commands it queues.
OneLine(c, x) ==
    ReadEvents([level |-> level, ents |-> ents, cmds |-> <<>>], <<<<c, x>>>>, 1)

\* The line c queues the spawn of one key of the given variant whose KeyOf
\* names d, and changes no entity.
QueuesKey(c, variant, d) ==
    LET r == OneLine(c, "")
    IN /\ r.ents = ents
       /\ Len(r.cmds) = 1
       /\ r.cmds[1].cmd = "spawn"
       /\ r.cmds[1].b = KeyBundle(variant, d)

\* C30: in a world that has a door, "/setdoor X" sets the target of the
\* door to X, and "/keep" and "/destroy" create a key of their variant
\* whose KeyOf names the door; in a world without a door each of the three
\* lines changes no entity and queues nothing.
C30_DoorCommands ==
    LET D == OfKind(ents, "Door")
    IN /\ D # {} =>
            /\ \A x \in Idents : \E d \in D :
                  /\ OneLine("/setdoor", x).ents = [ents EXCEPT ![d].target = x]
                  /\ OneLine("/setdoor", x).cmds = <<>>
            /\ \E d \in D : QueuesKey("/keep", "MustKeep", d)
            /\ \E d \in D : QueuesKey("/destroy", "MustDestroy", d)
       /\ D = {} =>
            \A c \in {"/setdoor", "/keep", "/destroy"} : \A x \in Idents :
                OneLine(c, x).ents = ents /\ OneLine(c, x).cmds = <<>>

\* C31: when the despawn_level of a reset or of a transition has run, no
\* entity with Serialize is left, also none that is still a child of its
\* load placeholder.
C31_DespawnLeavesNoPersisted ==
    [][(/\ queue # <<>>
        /\ Head(queue).cmd = "run" /\ Head(queue).sys = "despawn_level"
        /\ Head(queue).op \in ResetOps \cup TransitionOps) =>
            Persisted(ents') = {}]_vars

\* C32: in every reachable state at most one Player exists.
C32_AtMostOnePlayer == Cardinality(Players(ents)) <= 1

\* C33: a load that resolves while a write to the same file is under way,
\* its file created and its bytes not yet written, does not read an empty
\* file.
C33_LoadReadsWholeFile ==
    [][\A p \in SceneRoots(ents) :
          (/\ ents[p].st = "loading" /\ ents'[p].st # "loading"
           /\ \E i \in 1..Len(tasks) :
                 tasks[i].path = ents[p].path /\ tasks[i].st = "created") =>
              files[ents[p].path].k # "empty"]_vars

\* C34: when two saves of one identifier are issued one after the other and
\* every write issued for that identifier has finished without failing, the
\* stored file holds the snapshot of the save issued last.
C34_LaterSaveWins ==
    \A x \in Idents :
        (/\ newest[x] # <<>>
         /\ \A i \in 1..Len(tasks) : tasks[i].path # x) =>
            files[x] = SceneFile(newest[x][1])

\* The doors named by the Locked insertions that must_keep queues while e and
\* its descendants are despawned and that no longer exist when the despawn
\* has ended and the queued insertions are applied.
DeadInserts(w, e) ==
    LET D == Descendants(w, {e} \cap Live(w))
        T == {w[k].keyOf : k \in {j \in D : /\ w[j].kind = "MustKeep"
                                            /\ w[j].keyOf # Null}}
    IN {d \in T : Despawn(w, {e})[d].kind # "Door"}

\* Some order of despawning the entities of S one after the other issues a
\* Locked insertion for an entity that is no longer a door.
RECURSIVE SomeOrderDead(_, _)
SomeOrderDead(w, S) ==
    \E e \in S :
        \/ DeadInserts(w, e) # {}
        \/ SomeOrderDead(Despawn(w, {e}), S \ {e})

\* The doors and keys among the entities despawn_level despawns; the despawn
\* of another of them changes no door, no key and no KeyOf.
DoorsAndKeys(w) ==
    {e \in DespawnTargets(w) : w[e].kind = "Door" \/ IsKey(w[e])}

\* C35: when despawn_level is about to run, no order in which the despawn
\* commands of the doors and keys are applied issues a Locked insertion for
\* a door that has been despawned already, and neither does a despawn
\* command of one entity.
C35_LockOnlyLiveDoor ==
    queue # <<>> =>
        /\ (Head(queue).cmd = "run" /\ Head(queue).sys = "despawn_level") =>
              ~SomeOrderDead(ents, DoorsAndKeys(ents))
        /\ Head(queue).cmd = "despawn" => DeadInserts(ents, Head(queue).id) = {}

\* The bulk despawn is about to run on a level with a door and a MustKeep key
\* of that door, both among the entities it despawns.
C35_Witness ==
    /\ queue # <<>>
    /\ Head(queue).cmd = "run" /\ Head(queue).sys = "despawn_level"
    /\ \E d, k \in DespawnTargets(ents) :
          /\ ents[d].kind = "Door"
          /\ ents[k].kind = "MustKeep" /\ ents[k].keyOf = d

\* C36: every selected weapon with ammunition has 0 <= Ammo <= MaxAmmo, in
\* every state that attacks, landings, /ammo commands, pickups, weapon
\* selections and reloads of the level lead to; and an attack of the one
\* selected weapon fires nothing and leaves Ammo at 0 when the player is in
\* the air with Ammo = 0, fires and takes exactly one from Ammo when the
\* player is in the air with Ammo > 0, and fires and leaves Ammo as it is
\* when the player is on the ground.
C36_AmmoWithinBounds ==
    /\ [](\A i \in WithAmmo(arms) :
             0 <= arms[i].ammo /\ arms[i].ammo <= arms[i].max)
    /\ [][(fired' # "none" /\ Cardinality(WithAmmo(arms)) = 1) =>
            LET e == TheOnly(WithAmmo(arms))
                n == arms[e].ammo
            IN /\ \A i \in ArmIds \ {e} : arms'[i] = arms[i]
               /\ arms'[e].max = arms[e].max
               /\ (~grounded /\ n = 0) =>
                      fired' = "dry" /\ arms'[e].ammo = 0
               /\ (~grounded /\ n > 0) =>
                      fired' = "fired" /\ arms'[e].ammo = n - 1
               /\ grounded => fired' = "fired" /\ arms'[e].ammo = n]_vars

\* An attack in the air with an empty weapon, which can hold ammunition, has
\* fired nothing.
C36_Witness ==
    /\ fired = "dry" /\ ~grounded
    /\ \E e \in WithAmmo(arms) : arms[e].ammo = 0 /\ arms[e].max > 0

\* C37: at most one entity carries SelectedWeapon.
C37_OneSelectedWeapon == Cardinality(SelectedArms(arms)) <= 1

\* C38: the player's caster points where gravity points: upward, the ceiling
\* caster, exactly when gravity points upward.
C38_CasterFollowsGravity == caster = gravity
====
